---- MODULE Spec2Model ----
(***************************************************************************)
(* State-machine model of the Tiki product crawler (src/crawler.py,        *)
(* src/utils.py): the checkpoint store, the batch scheduler (run), the     *)
(* bounded fetch pool (process_batch / bound_fetch), the retry chain of    *)
(* fetch_product, the adaptive rate limiter and save_results.              *)
(*                                                                         *)
(* Scheduling is asyncio's: one task runs at a time and control changes    *)
(* hands only at an await that really suspends (semaphore wait, spacer     *)
(* sleep, HTTP request, retry sleep).  Every action below is the code that *)
(* runs between two such suspension points.  Times are in tenths of a      *)
(* second.  The clock runs in SpecSpacer only, where wait_if_needed reads  *)
(* it; in the other specifications whether wait_if_needed sleeps is a      *)
(* choice of the environment.                                              *)
(***************************************************************************)
EXTENDS Integers, Sequences, FiniteSets, TLC

VARIABLES
    \* configuration and environment (fixed during a behaviour)
    ids,                \* rows of the input csv, in order (strings)
    batch_size,         \* config["batch_size"]
    retry,              \* config["retry"]
    cfg_concurrency,    \* config["concurrency"]
    stub,               \* remote API: id -> outcomes an attempt for it may get
    launches,           \* how many times the program is started
    \* file system (survives the process)
    ckpt_file,          \* logs/checkpoint.json
    output_files,       \* output/products_NNN.json: batch number -> records
    report_log,         \* logs/error_report.txt: one line per saved batch
    \* the crawler process
    pc,                 \* position of the main coroutine
    done_ids, last_completed_batch, results, error_count, total_success,
    rate_limit_count,   \* SmartRateLimiter.rate_limit_count
    i,                  \* next value of range(0, len(ids), batch_size)
    current_batch_num,
    tasks,              \* bound_fetch tasks of the current batch
    sem,                \* value of the asyncio.Semaphore of the batch
    done_queue,         \* finished tasks not yet taken by as_completed
    completed, batch_success,
    success_rate,       \* local of save_results: successes over attempted
    \* wall clock (SpecSpacer)
    now,                \* time.time()
    last_request_time,  \* RequestSpacer.last_request_time
    \* history
    runs,               \* processes started so far
    requested,          \* ids an HTTP request was sent for by this process
    batch_log,          \* batch numbers this process started, in order
    saved,              \* argument of the last finished save_checkpoint
    prev,               \* what the previous process left behind
    ckpt_log            \* batches this process finished save_checkpoint for

cfgvars  == <<ids, batch_size, retry, cfg_concurrency, stub, launches>>
filevars == <<ckpt_file, output_files, report_log>>
memvars  == <<done_ids, last_completed_batch, results, error_count,
              total_success, rate_limit_count>>
poolvars == <<tasks, sem, done_queue, completed, batch_success>>
histvars == <<runs, requested, batch_log, saved, prev, ckpt_log>>
clockvars == <<now, last_request_time>>
vars == <<cfgvars, filevars, pc, memvars, i, current_batch_num, poolvars,
          success_rate, histvars, clockvars>>

----------------------------------------------------------------------------
\* Bounds of the model
MaxRetry == 2
MaxRuns == 2
\* the clock stops here (tenths of a second)
MaxTime == 8

\* Program constants
ConcurrencyCeiling == 50
MaxDelay == 60
\* RequestSpacer(min_interval=0.3)
min_interval == 3

Min(a, b) == IF a < b THEN a ELSE b
Max(a, b) == IF a > b THEN a ELSE b
Range(s) == {s[n] : n \in DOMAIN s}

\* Per-attempt outcomes of session.get / resp.json
Outcomes == {"200", "404", "429", "500", "timeout", "client_error",
             "200_undecodable"}

ErrorKinds == {"http_error", "network_error", "not_found", "rate_limit"}

----------------------------------------------------------------------------
\* Python values that cross the checkpoint interface

\* list(s) of a set: some fixed order of its elements
RECURSIVE SetToSeq(_)
SetToSeq(S) ==
    IF S = {} THEN <<>>
    ELSE LET x == CHOOSE y \in S : TRUE IN <<x>> \o SetToSeq(S \ {x})

\* keys of the dict built by save_results, in insertion order
CheckpointKeys ==
    <<"done_ids", "last_completed_batch", "total_success", "error_count",
      "timestamp">>

\* checkpoint_data of save_results
checkpoint_data(d, k, ts, ec) ==
    [type |-> "dict", done_ids |-> SetToSeq(d), last_completed_batch |-> k,
     total_success |-> ts, error_count |-> ec]

PySet(S) == [type |-> "set", elems |-> S]

\* list(x): the elements of a set, the KEYS of a dict
list(x) == IF x.type = "dict" THEN CheckpointKeys ELSE SetToSeq(x.elems)

\* json.dump(list(done_ids), f): the file holds a JSON array
save_checkpoint(data) == [kind |-> "array", items |-> list(data)]

\* set(json.load(f)) of a file that parses: the items of an array, the keys
\* of an object; always a set, never a dict
load_checkpoint(file) ==
    IF file.kind = "array" THEN PySet(Range(file.items))
    ELSE PySet(Range(CheckpointKeys))

\* TikiCrawler.__init__, lines 78-92: the resume state read from the file
InitDoneIds(file) ==
    IF file.kind = "absent" THEN {}
    ELSE LET cd == load_checkpoint(file) IN
         IF cd.type = "dict" THEN Range(cd.done_ids) ELSE cd.elems

InitLastCompletedBatch(file) ==
    IF file.kind = "absent" THEN 0
    ELSE LET cd == load_checkpoint(file) IN
         IF cd.type = "dict" THEN cd.last_completed_batch ELSE 0

----------------------------------------------------------------------------
\* SmartRateLimiter

\* the delay without its 60 s ceiling
get_delay_Uncapped(c) == IF c > 0 THEN (2 ^ c) * 10 ELSE 1

get_delay(c) == IF c > 0 THEN Min(2 ^ c, MaxDelay) * 10 ELSE 1

record_rate_limit(c) == c + 1

record_success(c) == IF c > 0 THEN Max(0, c - 1) ELSE c

----------------------------------------------------------------------------
\* Inputs

IdList == <<"1", "2", "3">>
BatchSizes == {1, 2}
Concurrencies == {1, 51}
PoolConcurrencies == {1, 2, 51}
\* completed sets of checkpoint files left by the bare-array format
LegacySets == {{"1"}}

AbsentFile == [kind |-> "absent"]
PartialFile == [kind |-> "partial"]
NoCheckpoint == [type |-> "none"]

\* the number the API answers for the id in the url: str(IdNum(pid)) = pid
IdNum(pid) == CHOOSE n \in 0..9 : ToString(n) = pid

ZeroErrors ==
    [http_error |-> 0, network_error |-> 0, not_found |-> 0, rate_limit |-> 0]

NoResult == [ok |-> FALSE, id |-> 0]

\* success_rate as the fraction it is computed from; 0 when nothing was
\* attempted
NoRate == [num |-> 0, den |-> 0]

NewTask(pid) ==
    [pid |-> pid, st |-> "queued", attempt |-> 0, last_error_type |-> "none",
     result |-> NoResult,
     \* history of the chain
     reqs |-> 0, last |-> "none", only429 |-> TRUE, incs |-> ZeroErrors,
     delay |-> 0,
     waits |-> 0,       \* calls of wait_if_needed
     wake_at |-> 0,     \* when the sleep of wait_if_needed is due
     sent_at |-> 0]     \* when the first request went out

\* nothing has run yet
Boot ==
    /\ output_files = <<>>
    /\ report_log = <<>>
    /\ success_rate = NoRate
    /\ pc = "off"
    /\ done_ids = {}
    /\ last_completed_batch = 0
    /\ results = <<>>
    /\ error_count = ZeroErrors
    /\ total_success = 0
    /\ rate_limit_count = 0
    /\ i = 0
    /\ current_batch_num = 0
    /\ tasks = <<>>
    /\ sem = 0
    /\ done_queue = <<>>
    /\ completed = 0
    /\ batch_success = 0
    /\ runs = 0
    /\ requested = {}
    /\ batch_log = <<>>
    /\ ckpt_log = <<>>
    /\ prev = [finished |-> FALSE, saved |-> NoCheckpoint]
    /\ now = min_interval
    /\ last_request_time = 0

\* no checkpoint file, or one the bare-array format left
FreshOrLegacy ==
    \/ ckpt_file = AbsentFile /\ saved = NoCheckpoint
    \/ \E S \in LegacySets :
         /\ ckpt_file = save_checkpoint(PySet(S))
         /\ saved = PySet(S)

\* one start of the program; every attempt may end in any way
Init ==
    /\ ids = IdList
    /\ batch_size \in BatchSizes
    /\ retry \in 0..MaxRetry
    /\ cfg_concurrency \in Concurrencies
    /\ stub = [p \in Range(IdList) |-> Outcomes]
    /\ launches = 1
    /\ FreshOrLegacy
    /\ Boot

\* one start, one batch of all the identifiers, each attempt answered 200 or
\* 429: the pool and the rate limiter under concurrent fetches
InitPool ==
    /\ ids = IdList
    /\ batch_size = Len(IdList)
    /\ retry \in 0..MaxRetry
    /\ cfg_concurrency \in PoolConcurrencies
    /\ stub = [p \in Range(IdList) |-> {"200", "429"}]
    /\ launches = 1
    /\ FreshOrLegacy
    /\ Boot

\* the program is started again after it ended or was killed; the API
\* answers each identifier the same way at every attempt
InitResume ==
    /\ ids = IdList
    /\ batch_size \in BatchSizes
    /\ retry \in 0..1
    /\ cfg_concurrency \in Concurrencies
    /\ stub \in [Range(IdList) -> {{"200"}, {"404"}, {"429"}}]
    /\ launches = MaxRuns
    /\ FreshOrLegacy
    /\ Boot

\* the end-to-end scenario: identifiers 1..4 in batches of two, one retry,
\* 200 for 1 and 2, 404 for 3, 429 at every attempt for 4, no checkpoint
InitScenario ==
    /\ ids = <<"1", "2", "3", "4">>
    /\ batch_size = 2
    /\ retry = 1
    /\ cfg_concurrency \in Concurrencies
    /\ stub = ("1" :> {"200"}) @@ ("2" :> {"200"}) @@ ("3" :> {"404"})
              @@ ("4" :> {"429"})
    /\ launches = 1
    /\ ckpt_file = AbsentFile
    /\ saved = NoCheckpoint
    /\ Boot

\* self.concurrency = min(config["concurrency"], 50)
concurrency == Min(cfg_concurrency, ConcurrencyCeiling)

\* the memory of a process that has not been constructed (or has died)
NoProcess ==
    /\ done_ids' = {}
    /\ last_completed_batch' = 0
    /\ results' = <<>>
    /\ error_count' = ZeroErrors
    /\ total_success' = 0
    /\ rate_limit_count' = 0
    /\ i' = 0
    /\ current_batch_num' = 0
    /\ tasks' = <<>>
    /\ sem' = 0
    /\ done_queue' = <<>>
    /\ completed' = 0
    /\ batch_success' = 0
    /\ success_rate' = NoRate

\* the process ends with an uncaught exception or is killed
Die ==
    /\ pc' = "dead"
    /\ NoProcess
    /\ prev' = [finished |-> FALSE, saved |-> saved]

----------------------------------------------------------------------------
\* TikiCrawler.__init__: a new process reads the checkpoint file.  json.load
\* of a truncated file raises and the process ends.
TikiCrawler_init ==
    /\ pc \in {"off", "exit", "dead"}
    /\ runs < launches
    /\ runs' = runs + 1
    /\ requested' = {}
    /\ batch_log' = <<>>
    /\ ckpt_log' = <<>>
    /\ last_request_time' = 0
    /\ now' = now
    /\ IF ckpt_file.kind = "partial"
       THEN Die
       ELSE /\ pc' = "run"
            /\ done_ids' = InitDoneIds(ckpt_file)
            /\ last_completed_batch' = InitLastCompletedBatch(ckpt_file)
            /\ results' = <<>>
            /\ error_count' = ZeroErrors
            /\ total_success' = 0
            /\ rate_limit_count' = 0
            /\ i' = 0
            /\ current_batch_num' = 0
            /\ tasks' = <<>>
            /\ sem' = 0
            /\ done_queue' = <<>>
            /\ completed' = 0
            /\ batch_success' = 0
            /\ success_rate' = NoRate
            /\ UNCHANGED prev
    /\ UNCHANGED <<cfgvars, filevars, saved>>

\* ids[i:i + batch_size]
BatchIds(n) == SubSeq(ids, n + 1, Min(n + batch_size, Len(ids)))

\* (i // batch_size) + 1
BatchNum(n) == (n \div batch_size) + 1

\* the step of range(0, len(ids), batch_size)
NextI(n) == n + batch_size

\* run(): one iteration of the loop over the batches, up to the first await of
\* process_batch (the tasks are created, none has run yet)
run_loop ==
    /\ pc = "run"
    /\ IF i >= Len(ids)
       THEN /\ pc' = "exit"
            /\ prev' = [finished |-> TRUE, saved |-> saved]
            /\ UNCHANGED <<i, current_batch_num, poolvars, batch_log>>
       ELSE IF BatchNum(i) <= last_completed_batch
       THEN /\ i' = NextI(i)
            /\ UNCHANGED <<pc, prev, current_batch_num, poolvars, batch_log>>
       ELSE /\ pc' = "batch"
            /\ current_batch_num' = BatchNum(i)
            /\ tasks' = [t \in 1..Len(BatchIds(i)) |-> NewTask(BatchIds(i)[t])]
            /\ sem' = concurrency
            /\ done_queue' = <<>>
            /\ completed' = 0
            /\ batch_success' = 0
            /\ batch_log' = Append(batch_log, BatchNum(i))
            /\ i' = NextI(i)
            /\ UNCHANGED prev
    /\ UNCHANGED <<cfgvars, filevars, memvars, success_rate, runs, requested,
                   saved, ckpt_log, clockvars>>

----------------------------------------------------------------------------
\* fetch_product: the retry chain of one identifier

Inc(ec, kind) == [ec EXCEPT ![kind] = @ + 1]

\* the retry test off by one: a sleep follows the last attempt too
CanRetry_OffByOne(a) == a <= retry

\* `if attempt < self.retry` of the four retryable branches
CanRetry(a) == a < retry

\* without the 404 branch: a 404 is one more non-200 status
Decide_404Retried(o) ==
    CASE o = "200"             -> [act |-> "success", kind |-> "none"]
      [] o = "200_undecodable" -> [act |-> "raise", kind |-> "none"]
      [] o = "429"             -> [act |-> "retryable", kind |-> "rate_limit"]
      [] o \in {"404", "500"}  -> [act |-> "retryable", kind |-> "http_error"]
      [] OTHER                 -> [act |-> "retryable", kind |-> "network_error"]

\* the branch of the attempt's try block an outcome takes and what it does:
\* return the record, let the exception escape, return None after counting,
\* or fall to the retry test with last_error_type set
Decide(o) ==
    CASE o = "200"             -> [act |-> "success", kind |-> "none"]
      [] o = "200_undecodable" -> [act |-> "raise", kind |-> "none"]
      [] o = "404"             -> [act |-> "terminal", kind |-> "not_found"]
      [] o = "429"             -> [act |-> "retryable", kind |-> "rate_limit"]
      [] o = "500"             -> [act |-> "retryable", kind |-> "http_error"]
      [] OTHER                 -> [act |-> "retryable", kind |-> "network_error"]

\* the sleep before the next attempt: adaptive after a 429 (the counter is
\* the one record_rate_limit has just raised), one second otherwise
RetryDelay(kind, c) == IF kind = "rate_limit" THEN get_delay(c) ELSE 10

\* the counter after the attempt's signal to the rate limiter
SignalLimiter(o, c) ==
    IF o = "200" THEN record_success(c)
    ELSE IF o = "429" THEN record_rate_limit(c)
    ELSE c

\* lines 192-193, after the loop
PostLoop(let, ec) ==
    IF let # "none" /\ let # "rate_limit" THEN Inc(ec, let) ELSE ec

\* the top of `for attempt in range(self.retry + 1)` with attempt = a: the
\* request goes out, or the loop is over and the code after it returns None
EnterAttempt(tk, a) ==
    IF a <= retry
    THEN [tk EXCEPT !.st = "inflight", !.attempt = a, !.reqs = @ + 1]
    ELSE [tk EXCEPT !.st = "finished", !.attempt = a]

ErrorsEntering(tk, a, ec) ==
    IF a <= retry THEN ec ELSE PostLoop(tk.last_error_type, ec)

\* the task and the tally once the response of attempt tk.attempt is handled
AfterResponse(tk, o, c) ==
    LET d == Decide(o) IN
    CASE d.act = "success" ->
           [tk EXCEPT !.st = "finished",
                      !.result = [ok |-> TRUE, id |-> IdNum(tk.pid)]]
      [] d.act = "raise" -> [tk EXCEPT !.st = "raised"]
      [] d.act = "terminal" -> [tk EXCEPT !.st = "finished"]
      [] OTHER ->
           IF CanRetry(tk.attempt)
           THEN [tk EXCEPT !.st = "sleeping", !.last_error_type = d.kind,
                           !.delay = RetryDelay(d.kind, c)]
           ELSE [tk EXCEPT !.st = "finished", !.last_error_type = d.kind]

\* the tally raised at every failed attempt, retried or not
ErrorsAfterResponse_PerAttempt(tk, o, ec) ==
    LET d == Decide(o) IN
    IF d.act \in {"terminal", "retryable"} THEN Inc(ec, d.kind) ELSE ec

ErrorsAfterResponse(tk, o, ec) ==
    LET d == Decide(o) IN
    IF d.act = "terminal" THEN Inc(ec, d.kind)
    ELSE IF d.act = "retryable" /\ ~CanRetry(tk.attempt) THEN Inc(ec, d.kind)
    ELSE ec

SuccessesAfterResponse(o, ts) == IF Decide(o).act = "success" THEN ts + 1 ELSE ts

\* a step of task t inside `async with sem`: nt is the task after it; the
\* semaphore is released when the coroutine returns or raises
PoolStep(t, nt, held, ec, ts, c) ==
    LET over == nt.st \in {"finished", "raised"} IN
    /\ tasks' = [tasks EXCEPT ![t] =
           [nt EXCEPT !.incs = [k \in ErrorKinds |->
                                   @[k] + ec[k] - error_count[k]]]]
    /\ sem' = IF over THEN held + 1 ELSE held
    /\ done_queue' = IF over THEN Append(done_queue, t) ELSE done_queue
    /\ error_count' = ec
    /\ total_success' = ts
    /\ rate_limit_count' = c
    /\ requested' = IF nt.reqs > tasks[t].reqs
                    THEN requested \cup {nt.pid} ELSE requested
    /\ UNCHANGED <<cfgvars, filevars, pc, done_ids, last_completed_batch,
                   results, i, current_batch_num, completed, batch_success,
                   success_rate, runs, batch_log, saved, prev, ckpt_log>>

\* the same step where the clock is not read
TaskStep(t, nt, held, ec, ts, c) ==
    /\ PoolStep(t, nt, held, ec, ts, c)
    /\ UNCHANGED clockvars

\* a semaphore that never blocks
locked_Never(s) == FALSE

\* asyncio.Semaphore.locked(): no slot is free
locked(s) == s = 0

\* fetch_product, line 117: the one call of wait_if_needed, before the loop
Spaced(tk) == [tk EXCEPT !.waits = @ + 1]

\* bound_fetch: the task gets the semaphore and runs fetch_product up to its
\* first suspension: the done_ids test, then wait_if_needed, which sleeps or
\* not, then the first request.  Any waiting task may be the one that gets a
\* free slot: as_completed starts the coroutines from a set, in no
\* particular order.
bound_fetch(t) ==
    /\ pc = "batch"
    /\ tasks[t].st = "queued"
    /\ ~locked(sem)
    /\ IF tasks[t].pid \in done_ids
       THEN TaskStep(t, [tasks[t] EXCEPT !.st = "finished"], sem - 1,
                     error_count, total_success, rate_limit_count)
       ELSE \/ TaskStep(t, [Spaced(tasks[t]) EXCEPT !.st = "spacing"], sem - 1,
                        error_count, total_success, rate_limit_count)
            \/ TaskStep(t, EnterAttempt(Spaced(tasks[t]), 0), sem - 1,
                        ErrorsEntering(tasks[t], 0, error_count),
                        total_success, rate_limit_count)

\* wait_if_needed: the sleep is over, the first request goes out
wait_if_needed_wake(t) ==
    /\ pc = "batch"
    /\ tasks[t].st = "spacing"
    /\ TaskStep(t, EnterAttempt(tasks[t], 0), sem,
                ErrorsEntering(tasks[t], 0, error_count),
                total_success, rate_limit_count)

\* the request of task t ends with outcome o
fetch_response(t) ==
    /\ pc = "batch"
    /\ tasks[t].st = "inflight"
    /\ \E o \in stub[tasks[t].pid] :
         LET c  == SignalLimiter(o, rate_limit_count)
             tk == [tasks[t] EXCEPT !.last = o,
                                    !.only429 = @ /\ o = "429"]
         IN TaskStep(t, AfterResponse(tk, o, c), sem,
                     ErrorsAfterResponse(tk, o, error_count),
                     SuccessesAfterResponse(o, total_success), c)

\* asyncio.sleep before a retry is over: the next attempt
retry_wake(t) ==
    /\ pc = "batch"
    /\ tasks[t].st = "sleeping"
    /\ TaskStep(t, EnterAttempt(tasks[t], tasks[t].attempt + 1), sem,
                ErrorsEntering(tasks[t], tasks[t].attempt + 1, error_count),
                total_success, rate_limit_count)

----------------------------------------------------------------------------
\* process_batch: the loop over asyncio.as_completed takes the next finished
\* task; an exception of the task is raised again here and ends the process
as_completed_next ==
    /\ pc = "batch"
    /\ done_queue # <<>>
    /\ LET t == Head(done_queue)
           tk == tasks[t]
       IN IF tk.st = "raised"
          THEN /\ Die
               /\ UNCHANGED <<runs, requested, batch_log, saved, ckpt_log>>
          ELSE /\ completed' = completed + 1
               /\ tasks' = [tasks EXCEPT ![t].st = "collected"]
               /\ done_queue' = Tail(done_queue)
               /\ batch_success' = IF tk.result.ok THEN batch_success + 1
                                   ELSE batch_success
               /\ results' = IF tk.result.ok
                             THEN Append(results, [id |-> tk.result.id])
                             ELSE results
               /\ done_ids' = IF tk.result.ok
                              THEN done_ids \cup {ToString(tk.result.id)}
                              ELSE done_ids
               /\ UNCHANGED <<pc, last_completed_batch, error_count,
                              total_success, rate_limit_count, i,
                              current_batch_num, sem, success_rate,
                              histvars>>
    /\ UNCHANGED <<cfgvars, filevars, clockvars>>

\* run() going round its loop without save_results
AfterProcessBatch_NoSave == "run"

\* run(), lines 321-322: what follows `await self.process_batch(...)`
AfterProcessBatch == "save_output"

\* the loop left at the first finished task
Exhausted_FirstCompleted == completed >= 1

\* `for coro in asyncio.as_completed(tasks)` is over: every task was taken
Exhausted == completed = Len(tasks)

\* process_batch, line 258, and its return to run()
process_batch_end ==
    /\ pc = "batch"
    /\ Exhausted
    /\ total_success' = total_success + batch_success
    /\ pc' = AfterProcessBatch
    /\ UNCHANGED <<cfgvars, filevars, done_ids, last_completed_batch, results,
                   error_count, rate_limit_count, i, current_batch_num,
                   poolvars, success_rate, histvars, clockvars>>

----------------------------------------------------------------------------
\* save_results

\* sum(self.error_count.values())
SumErrors(ec) ==
    ec.http_error + ec.network_error + ec.not_found + ec.rate_limit

\* the buffer kept as it is
Cleared_Kept(r) == r

\* self.results.clear()
Cleared(r) == <<>>

\* lines 261-278: the output artifact, the success rate, then the buffer is
\* cleared
save_results_output ==
    /\ pc = "save_output"
    /\ output_files' = (current_batch_num :> results) @@ output_files
    /\ success_rate' =
           LET total_batch_results == Len(results) + SumErrors(error_count)
           IN IF total_batch_results > 0
              THEN [num |-> Len(results), den |-> total_batch_results]
              ELSE NoRate
    /\ results' = Cleared(results)
    /\ last_completed_batch' = current_batch_num
    /\ pc' = "ckpt_open"
    /\ UNCHANGED <<cfgvars, ckpt_file, report_log, done_ids, error_count,
                   total_success, rate_limit_count, i, current_batch_num,
                   poolvars, histvars, clockvars>>

\* save_checkpoint, open(path, "w"): the file is truncated
save_checkpoint_open ==
    /\ pc = "ckpt_open"
    /\ ckpt_file' = PartialFile
    /\ pc' = "ckpt_dump"
    /\ UNCHANGED <<cfgvars, output_files, report_log, memvars, i,
                   current_batch_num, poolvars, success_rate, histvars,
                   clockvars>>

\* save_checkpoint, json.dump and close
save_checkpoint_dump ==
    /\ pc = "ckpt_dump"
    /\ LET data == checkpoint_data(done_ids, last_completed_batch,
                                   total_success, error_count)
       IN /\ ckpt_file' = save_checkpoint(data)
          /\ saved' = data
    /\ ckpt_log' = Append(ckpt_log, current_batch_num)
    /\ pc' = "report"
    /\ UNCHANGED <<cfgvars, output_files, report_log, memvars, i,
                   current_batch_num, poolvars, success_rate, runs, requested,
                   batch_log, prev, clockvars>>

\* lines 290-299: the line of the report, and run() goes to the next
\* iteration
save_results_report ==
    /\ pc = "report"
    /\ report_log' = Append(report_log,
           [batch |-> current_batch_num, errors |-> error_count,
            success_rate |-> success_rate])
    /\ pc' = "run"
    /\ UNCHANGED <<cfgvars, ckpt_file, output_files, memvars, i,
                   current_batch_num, poolvars, success_rate, histvars,
                   clockvars>>

\* the process is killed
Crash ==
    /\ pc \notin {"off", "exit", "dead"}
    /\ Die
    /\ UNCHANGED <<cfgvars, filevars, runs, requested, batch_log, saved,
                   ckpt_log, clockvars>>

Next ==
    \/ TikiCrawler_init
    \/ run_loop
    \/ \E t \in DOMAIN tasks : bound_fetch(t)
    \/ \E t \in DOMAIN tasks : wait_if_needed_wake(t)
    \/ \E t \in DOMAIN tasks : fetch_response(t)
    \/ \E t \in DOMAIN tasks : retry_wake(t)
    \/ as_completed_next
    \/ process_batch_end
    \/ save_results_output
    \/ save_checkpoint_open
    \/ save_checkpoint_dump
    \/ save_results_report
    \/ Crash

Spec == Init /\ [][Next]_vars

SpecPool == InitPool /\ [][Next]_vars

SpecResume == InitResume /\ [][Next]_vars

SpecScenario == InitScenario /\ [][Next]_vars

\* RequestSpacer.wait_if_needed read against the clock.  Two calls in the
\* same turn of the event loop read the same tenth of a second.

\* time_since_last = now - self.last_request_time
time_since_last == now - last_request_time

\* the first request of the task goes out now
SentNow(tk) == [EnterAttempt(tk, 0) EXCEPT !.sent_at = now]

\* bound_fetch up to the first suspension of fetch_product, the clock read:
\* wait_if_needed sleeps min_interval - time_since_last when the last
\* request is too recent, else it stamps last_request_time and the request
\* goes out
bound_fetch_at(t) ==
    /\ pc = "batch"
    /\ tasks[t].st = "queued"
    /\ ~locked(sem)
    /\ now' = now
    /\ IF tasks[t].pid \in done_ids
       THEN /\ PoolStep(t, [tasks[t] EXCEPT !.st = "finished"], sem - 1,
                        error_count, total_success, rate_limit_count)
            /\ UNCHANGED last_request_time
       ELSE IF time_since_last < min_interval
       THEN /\ PoolStep(t, [Spaced(tasks[t]) EXCEPT
                               !.st = "spacing",
                               !.wake_at = now + (min_interval - time_since_last)],
                        sem - 1, error_count, total_success, rate_limit_count)
            /\ UNCHANGED last_request_time
       ELSE /\ PoolStep(t, SentNow(Spaced(tasks[t])), sem - 1,
                        ErrorsEntering(tasks[t], 0, error_count),
                        total_success, rate_limit_count)
            /\ last_request_time' = now

\* the sleep of wait_if_needed is over: self.last_request_time = time.time()
\* and the first request goes out
wait_if_needed_wake_at(t) ==
    /\ pc = "batch"
    /\ tasks[t].st = "spacing"
    /\ now >= tasks[t].wake_at
    /\ PoolStep(t, SentNow(tasks[t]), sem,
                ErrorsEntering(tasks[t], 0, error_count),
                total_success, rate_limit_count)
    /\ last_request_time' = now
    /\ now' = now

\* a tenth of a second passes; a task that can take a slot and a sleeper
\* that is due run first
Tick ==
    /\ now < MaxTime
    /\ \A t \in DOMAIN tasks :
         /\ tasks[t].st = "spacing" => now < tasks[t].wake_at
         /\ (pc = "batch" /\ tasks[t].st = "queued") => locked(sem)
    /\ now' = now + 1
    /\ UNCHANGED <<cfgvars, filevars, pc, memvars, i, current_batch_num,
                   poolvars, success_rate, histvars, last_request_time>>

\* one start, one batch of all the identifiers, no retry, the clock running
InitSpacer ==
    /\ ids = IdList
    /\ batch_size = Len(IdList)
    /\ retry = 0
    /\ cfg_concurrency \in PoolConcurrencies
    /\ stub = [p \in Range(IdList) |-> {"200", "404"}]
    /\ launches = 1
    /\ ckpt_file = AbsentFile
    /\ saved = NoCheckpoint
    /\ Boot

NextSpacer ==
    \/ TikiCrawler_init
    \/ run_loop
    \/ \E t \in DOMAIN tasks : bound_fetch_at(t)
    \/ \E t \in DOMAIN tasks : wait_if_needed_wake_at(t)
    \/ \E t \in DOMAIN tasks : fetch_response(t)
    \/ as_completed_next
    \/ process_batch_end
    \/ save_results_output
    \/ save_checkpoint_open
    \/ save_checkpoint_dump
    \/ save_results_report
    \/ Tick

SpecSpacer == InitSpacer /\ [][NextSpacer]_vars

\* every concurrency the constructor accepts, zero included; every attempt
\* returns a status or raises a timeout or a connection fault
LiveConcurrencies == {0, 1, 51}

InitLive ==
    /\ ids = IdList
    /\ batch_size \in BatchSizes
    /\ retry \in 0..1
    /\ cfg_concurrency \in LiveConcurrencies
    /\ stub = [p \in Range(IdList) |-> Outcomes \ {"200_undecodable"}]
    /\ launches = 1
    /\ ckpt_file = AbsentFile
    /\ saved = NoCheckpoint
    /\ Boot

\* the program left to run: nobody kills it
NextLive ==
    \/ TikiCrawler_init
    \/ run_loop
    \/ \E t \in DOMAIN tasks : bound_fetch(t)
    \/ \E t \in DOMAIN tasks : wait_if_needed_wake(t)
    \/ \E t \in DOMAIN tasks : fetch_response(t)
    \/ \E t \in DOMAIN tasks : retry_wake(t)
    \/ as_completed_next
    \/ process_batch_end
    \/ save_results_output
    \/ save_checkpoint_open
    \/ save_checkpoint_dump
    \/ save_results_report

\* the event loop runs whatever is ready, requests and sleeps end
SpecLive == InitLive /\ [][NextLive]_vars /\ WF_vars(NextLive)

----------------------------------------------------------------------------
\* Checkpoint store across restarts (SpecResume)

\* __init__ has just returned: run() has not gone round its loop yet
Constructed == pc = "run" /\ i = 0

\* the file on disk is the one the last finished save_checkpoint wrote
FileIsSaved == saved.type # "none" /\ ckpt_file = save_checkpoint(saved)

\* C1: a structured checkpoint {done_ids: S, last_completed_batch: k} saved
\* with save_checkpoint and loaded by a new process gives done_ids = S and
\* last_completed_batch = k; a bare array of identifiers S gives done_ids = S
\* and last_completed_batch = 0.
C1_CheckpointRoundTrip ==
    (Constructed /\ FileIsSaved) =>
        /\ saved.type = "dict" =>
             /\ done_ids = Range(saved.done_ids)
             /\ last_completed_batch = saved.last_completed_batch
        /\ saved.type = "set" =>
             /\ done_ids = saved.elems
             /\ last_completed_batch = 0

\* the bare-array half of C1 alone
LegacyRoundTrip ==
    (Constructed /\ FileIsSaved /\ saved.type = "set") =>
        done_ids = saved.elems /\ last_completed_batch = 0

\* what a new process reads from a checkpoint the program wrote, whatever
\* was saved: the names of the dict's keys, and batch 0
StructuredLoadsAsKeys ==
    (Constructed /\ FileIsSaved /\ saved.type = "dict") =>
        done_ids = Range(CheckpointKeys) /\ last_completed_batch = 0

\* C2: if run 1 crawled the list to completion, run 2, started with the
\* checkpoint run 1 wrote, sends no request for an identifier of run 1's
\* completed set.
C2_IdempotentRerun ==
    (runs = 2 /\ prev.finished /\ prev.saved.type = "dict") =>
        requested \cap Range(prev.saved.done_ids) = {}

\* the batch an identifier of the list belongs to
BatchOfId(p) ==
    LET n == CHOOSE m \in DOMAIN ids : ids[m] = p IN BatchNum(n - 1)

\* C3: a run started from the checkpoint of a run that completed batches
\* 1..k sends no request for an identifier of batches 1..k, and the first
\* batch it processes is k+1.
C3_BatchGranularResume ==
    (runs >= 2 /\ prev.saved.type = "dict") =>
        /\ \A p \in requested :
             BatchOfId(p) > prev.saved.last_completed_batch
        /\ batch_log # <<>> =>
             batch_log[1] = prev.saved.last_completed_batch + 1

----------------------------------------------------------------------------
\* The retry chain (Spec)

\* fetch_product has returned for the task
Over(tk) == tk.st \in {"finished", "collected"}

\* increments of the tally made by the task's chain
Tallied(tk) ==
    tk.incs.http_error + tk.incs.network_error + tk.incs.not_found
        + tk.incs.rate_limit

\* C4: an identifier whose every attempt receives 429 consumes exactly
\* retry + 1 attempts, and its chain raises error_count["rate_limit"] by
\* exactly 1 and no other bucket.
C4_Always429 ==
    \A t \in DOMAIN tasks :
        (tasks[t].reqs > 0 /\ tasks[t].only429) =>
            /\ tasks[t].reqs <= retry + 1
            /\ Over(tasks[t]) =>
                 /\ tasks[t].reqs = retry + 1
                 /\ tasks[t].incs = [ZeroErrors EXCEPT !.rate_limit = 1]
            /\ ~Over(tasks[t]) => tasks[t].incs = ZeroErrors

C4_Witness ==
    \E t \in DOMAIN tasks :
        /\ Over(tasks[t]) /\ tasks[t].only429
        /\ retry = 2 /\ tasks[t].reqs = 3
        /\ error_count.rate_limit >= 1

\* C5: a 404 ends the chain whatever budget remains: no attempt follows it,
\* and error_count["not_found"] is raised by exactly 1; a 404 at the first
\* attempt has consumed exactly 1 attempt.
C5_NotFoundTerminal ==
    \A t \in DOMAIN tasks :
        tasks[t].last = "404" =>
            /\ Over(tasks[t])
            /\ tasks[t].reqs = tasks[t].attempt + 1
            /\ tasks[t].attempt = 0 => tasks[t].reqs = 1
            /\ tasks[t].incs.not_found = 1

C5_Witness ==
    \E t, u \in DOMAIN tasks :
        /\ tasks[t].st = "collected" /\ tasks[t].last = "404"
        /\ tasks[t].attempt = 0 /\ retry = 2
        /\ tasks[u].st = "collected" /\ tasks[u].last = "404"
        /\ tasks[u].attempt = 1

\* C6: whatever the outcomes of its attempts (200, 404, 429, other status,
\* timeout, connection fault), a fetched identifier ends with exactly one
\* classification: a success and no tally increment, or no success and
\* exactly one increment of one bucket; never more than one along the way.
C6_OneClassification ==
    \A t \in DOMAIN tasks :
        LET tk == tasks[t] IN
        /\ Tallied(tk) <= 1
        /\ ~(tk.result.ok /\ Tallied(tk) > 0)
        /\ (~Over(tk)) => (Tallied(tk) = 0 /\ ~tk.result.ok)
        /\ (Over(tk) /\ tk.reqs > 0) => (tk.result.ok \/ Tallied(tk) = 1)

C6_Witness ==
    \E t, u \in DOMAIN tasks :
        /\ Over(tasks[t]) /\ tasks[t].reqs = 3 /\ tasks[t].last = "timeout"
        /\ tasks[t].incs.network_error = 1
        /\ Over(tasks[u]) /\ tasks[u].reqs = 2 /\ tasks[u].result.ok

----------------------------------------------------------------------------
\* The pool (SpecPool)

\* tasks inside `async with sem`
Holding == {t \in DOMAIN tasks : tasks[t].st \in {"spacing", "inflight", "sleeping"}}

\* C7: the number of fetches holding the semaphore never exceeds
\* min(configured concurrency, 50).
C7_ConcurrencyBound ==
    Cardinality(Holding) <= Min(cfg_concurrency, 50)

C7_Witness ==
    /\ cfg_concurrency = 2
    /\ Cardinality(Holding) = 2
    /\ \E t \in DOMAIN tasks : tasks[t].st = "queued"
    /\ \E t \in DOMAIN tasks : tasks[t].st = "sleeping"

\* the step handles the response of task t's request
Responded(t) ==
    /\ pc = "batch" /\ pc' = "batch"
    /\ tasks[t].st = "inflight" /\ tasks'[t].st # "inflight"

\* C10: the rate-limit counter starts at 0, goes up by 1 at every 429, down
\* by exactly 1 at a success when positive, never below 0 and changes at no
\* other step; the sleep before a 429 retry is min(2^counter, 60) s, at most
\* 60 s and non-decreasing in the counter.
C10_AdaptiveBackoff ==
    [][/\ rate_limit_count' >= 0
       /\ (pc \in {"off", "exit", "dead"} /\ pc' = "run") =>
            rate_limit_count' = 0
       /\ \A t \in DOMAIN tasks :
            Responded(t) =>
                /\ tasks'[t].last = "429" =>
                     /\ rate_limit_count' = rate_limit_count + 1
                     /\ tasks'[t].st = "sleeping" =>
                          /\ tasks'[t].delay =
                                 10 * Min(2 ^ rate_limit_count', 60)
                          /\ tasks'[t].delay <= 600
                /\ tasks'[t].last = "200" =>
                     /\ rate_limit_count > 0 =>
                          rate_limit_count' = rate_limit_count - 1
                     /\ rate_limit_count = 0 => rate_limit_count' = 0
       /\ (pc' \notin {"dead", "off"} /\ pc \notin {"off", "exit", "dead"}
             /\ \A t \in DOMAIN tasks : ~Responded(t)) =>
            rate_limit_count' = rate_limit_count
       /\ \A c \in 1..rate_limit_count' : get_delay(c - 1) <= get_delay(c)
      ]_vars

C10_Witness ==
    /\ rate_limit_count >= 6
    /\ \E t, u \in DOMAIN tasks :
         /\ tasks[t].st = "sleeping" /\ tasks[t].delay = 600
         /\ tasks[u].result.ok

----------------------------------------------------------------------------
\* The batch scheduler (Spec)

\* the task has sent a request, or is about to
Fetching(tk) == tk.st \in {"spacing", "inflight", "sleeping"}

\* C8: batches are processed in strictly increasing order, and no fetch of
\* a batch starts before the output artifact and the checkpoint of the
\* batch before it are written.
C8_BatchBarrier ==
    /\ \A a, b \in DOMAIN batch_log : a < b => batch_log[a] < batch_log[b]
    /\ \A t \in DOMAIN tasks :
         Fetching(tasks[t]) =>
             /\ pc = "batch"
             /\ batch_log # <<>>
             /\ batch_log[Len(batch_log)] = current_batch_num
             /\ tasks[t].pid \in Range(SubSeq(ids,
                    (current_batch_num - 1) * batch_size + 1,
                    Min(current_batch_num * batch_size, Len(ids))))
             /\ Len(batch_log) >= 2 =>
                  LET n == batch_log[Len(batch_log) - 1] IN
                  /\ n \in DOMAIN output_files
                  /\ saved.type = "dict"
                  /\ saved.last_completed_batch = n
                  /\ ckpt_file = save_checkpoint(saved)

C8_Witness ==
    /\ Len(batch_log) = 3
    /\ \E t \in DOMAIN tasks : tasks[t].st = "inflight" /\ tasks[t].attempt = 1
    /\ DOMAIN output_files = {1, 2}

----------------------------------------------------------------------------
\* The end-to-end scenario (SpecScenario)

\* C9: the fresh run of the scenario ends with the artifact of batch 1
\* holding exactly the records of 1 and 2, the tally {not_found: 1,
\* rate_limit: 1, http_error: 0, network_error: 0}, and a checkpoint file
\* that gives last_completed_batch = 2 and the completed set {1, 2}.
C9_Scenario ==
    pc = "exit" =>
        /\ 1 \in DOMAIN output_files
        /\ Len(output_files[1]) = 2
        /\ {r.id : r \in Range(output_files[1])} = {1, 2}
        /\ error_count = [not_found |-> 1, rate_limit |-> 1,
                          http_error |-> 0, network_error |-> 0]
        /\ InitLastCompletedBatch(ckpt_file) = 2
        /\ InitDoneIds(ckpt_file) = {"1", "2"}

\* what of the scenario does hold: the artifact, the tally, and the
\* process's own last_completed_batch and done_ids
ScenarioInMemory ==
    pc = "exit" =>
        /\ 1 \in DOMAIN output_files
        /\ Len(output_files[1]) = 2
        /\ {r.id : r \in Range(output_files[1])} = {1, 2}
        /\ output_files[2] = <<>>
        /\ error_count = [not_found |-> 1, rate_limit |-> 1,
                          http_error |-> 0, network_error |-> 0]
        /\ last_completed_batch = 2
        /\ done_ids = {"1", "2"}
        /\ ckpt_file = [kind |-> "array", items |-> CheckpointKeys]

----------------------------------------------------------------------------
\* Crash safety of the checkpoint (SpecResume)

\* C11: whenever the process dies, also in the middle of save_checkpoint,
\* the checkpoint file the next run reads is the complete previous
\* checkpoint or the complete new one, never a truncated or partial file.
C11_AtomicCheckpointSave ==
    pc = "dead" =>
        \/ ckpt_file = AbsentFile /\ saved = NoCheckpoint
        \/ FileIsSaved

\* outside save_checkpoint the file is always a complete one
CompleteOutsideSave ==
    pc # "ckpt_dump" =>
        \/ ckpt_file = AbsentFile /\ saved = NoCheckpoint
        \/ FileIsSaved
        \/ pc = "dead"

----------------------------------------------------------------------------
\* Faults of one identifier (Spec)

\* C12: no fault of a single identifier (timeout, connection fault, non-2xx
\* status, 200 with a body that cannot be decoded) escapes fetch_product:
\* no task ends with an exception, every task ends with a result or one
\* error kind.
C12_FaultAbsorption ==
    \A t \in DOMAIN tasks :
        /\ tasks[t].st # "raised"
        /\ (Over(tasks[t]) /\ tasks[t].reqs > 0) =>
               (tasks[t].result.ok \/ Tallied(tasks[t]) = 1)

\* the only fault that escapes is the body of a 200 that does not decode
OnlyUndecodableEscapes ==
    \A t \in DOMAIN tasks :
        tasks[t].st = "raised" => tasks[t].last = "200_undecodable"

----------------------------------------------------------------------------
\* Summary of a batch (Spec)

SaveStages == {"ckpt_open", "ckpt_dump", "report"}

RECURSIVE SumOver(_, _)
SumOver(f, S) ==
    IF S = {} THEN 0
    ELSE LET x == CHOOSE y \in S : TRUE IN f[x] + SumOver(f, S \ {x})

\* successes and terminal failures of the batch in hand
BatchSuccesses == Cardinality({t \in DOMAIN tasks : tasks[t].result.ok})
BatchFailures == SumOver([t \in DOMAIN tasks |-> Tallied(tasks[t])], DOMAIN tasks)

\* C13: the success rate save_results computes for a batch is
\* successes / (successes + terminal failures) of that batch, 0 when nothing
\* was attempted; failures of earlier batches are not in the denominator.
C13_PerBatchSuccessRate ==
    pc \in SaveStages =>
        IF BatchSuccesses + BatchFailures = 0
        THEN success_rate.num = 0
        ELSE /\ success_rate.den > 0
             /\ success_rate.num * (BatchSuccesses + BatchFailures)
                    = BatchSuccesses * success_rate.den

\* what the rate is: successes of the batch over successes of the batch plus
\* every terminal failure of the run so far
RateOverRunFailures ==
    pc \in SaveStages =>
        /\ success_rate.num = BatchSuccesses
        /\ success_rate.den =
               IF BatchSuccesses + SumErrors(error_count) > 0
               THEN BatchSuccesses + SumErrors(error_count) ELSE 0

\* identifiers that reached Success in this run so far
RunSuccesses ==
    Len(results)
        + SumOver([b \in DOMAIN output_files |-> Len(output_files[b])],
                  DOMAIN output_files)

\* C14: total_success is raised exactly once per successfully fetched
\* identifier: after every completed batch, and in the total_success of the
\* checkpoint data, it is the number of identifiers that succeeded so far.
C14_SuccessCounter ==
    /\ pc \in {"save_output", "ckpt_open", "ckpt_dump", "report", "run", "exit"}
         => total_success = RunSuccesses
    /\ (pc = "report" /\ saved.type = "dict")
         => saved.total_success = RunSuccesses

\* what the counter is after a batch: twice the successes
CountsTwice ==
    pc \in {"save_output", "ckpt_open", "ckpt_dump", "report", "run", "exit"}
        => total_success = 2 * RunSuccesses

----------------------------------------------------------------------------
\* Identifiers already in the completed set (Spec, SpecPool)

\* C15: an identifier already in the completed set is skipped without a
\* network call and without needing one of the slots: its skip can be done
\* in any state, also while every slot is held by a fetch in flight.
C15_SkipNeedsNoSlot ==
    \A t \in DOMAIN tasks :
        (pc = "batch" /\ tasks[t].pid \in done_ids
                      /\ tasks[t].st # "collected") =>
            /\ tasks[t].reqs = 0
            /\ tasks[t].st = "queued" => ENABLED bound_fetch(t)

\* the half that holds: no request is sent for such an identifier
SkipSendsNothing ==
    \A t \in DOMAIN tasks :
        (pc = "batch" /\ tasks[t].pid \in done_ids
                      /\ tasks[t].st # "collected") =>
            /\ tasks[t].reqs = 0
            /\ tasks[t].st \in {"queued", "finished"}

----------------------------------------------------------------------------
\* Request spacing (Spec)

\* C16: every request of fetch_product, the retries included, is preceded by
\* its own call of wait_if_needed: a task has called wait_if_needed as many
\* times as it has sent requests.
C16_SpacingEveryAttempt ==
    \A t \in DOMAIN tasks :
        tasks[t].st = "inflight" => tasks[t].waits = tasks[t].reqs

\* wait_if_needed is called once for an identifier that is fetched, whatever
\* the number of attempts
OneSpacerCall ==
    \A t \in DOMAIN tasks :
        /\ tasks[t].waits <= 1
        /\ tasks[t].reqs > 0 => tasks[t].waits = 1

----------------------------------------------------------------------------
\* The result buffer and the artifacts (Spec)

tasks_pids == [t \in DOMAIN tasks |-> tasks[t].pid]

RecordIds(recs) == {ToString(recs[n].id) : n \in DOMAIN recs}

\* C18: the artifact of batch k holds exactly the records of the identifiers
\* of batch k that succeeded in this run, each once, and none of another
\* batch; the result buffer is empty when the fetches of a batch begin.
C18_ResultSinkIsolation ==
    /\ \A b \in DOMAIN output_files :
         /\ \A p \in RecordIds(output_files[b]) : BatchOfId(p) = b
         /\ Cardinality(RecordIds(output_files[b])) = Len(output_files[b])
    /\ pc \in SaveStages =>
         RecordIds(output_files[current_batch_num])
             = {tasks[t].pid : t \in {u \in DOMAIN tasks : tasks[u].result.ok}}
    /\ (pc = "batch" /\ completed = 0) => results = <<>>
    /\ pc = "batch" => RecordIds(results) \subseteq Range(tasks_pids)

\* two batches in a row have each written a success
C18_Witness ==
    /\ pc \in SaveStages
    /\ current_batch_num = 2
    /\ 1 \in DOMAIN output_files /\ Len(output_files[1]) >= 1
    /\ Len(output_files[2]) >= 1

----------------------------------------------------------------------------
\* Order of the writes of a batch (Spec)

\* C19: the artifact and the checkpoint of a batch are written only after
\* every identifier of the batch has its terminal outcome, no request or
\* sleep pending; the checkpoint is written once per completed batch, after
\* the artifact of that batch.
C19_WritesAfterBatch ==
    /\ pc \in {"save_output"} \cup SaveStages =>
         /\ \A t \in DOMAIN tasks : tasks[t].st = "collected"
         /\ done_queue = <<>>
    /\ Range(ckpt_log) \subseteq DOMAIN output_files
    /\ pc \in {"report", "run", "exit"} => ckpt_log = batch_log
    /\ pc \in {"batch", "save_output", "ckpt_open", "ckpt_dump"} =>
         Append(ckpt_log, current_batch_num) = batch_log

\* the second checkpoint of a run is written, after a batch with a retry
C19_Witness ==
    /\ pc = "report"
    /\ Len(ckpt_log) = 2
    /\ \E t \in DOMAIN tasks : tasks[t].reqs >= 2

----------------------------------------------------------------------------
\* Termination (SpecLive)

\* C20: with every attempt ending, for every accepted concurrency (0
\* included) every batch completes and run() finishes, no task waiting for
\* ever on the semaphore: until run() has returned, some step of the program
\* can be taken.
C20_RunFinishes == pc = "exit" \/ ENABLED NextLive

\* the same as a property of the fair behaviours
EventuallyExits == <>(pc = "exit")

\* with at least one slot run() does finish
ExitsWithASlot == (concurrency >= 1) => <>(pc = "exit")

\* without a slot no task ever starts
NoSlotNoStart ==
    (concurrency = 0 /\ pc = "batch") =>
        /\ \A t \in DOMAIN tasks : tasks[t].st = "queued"
        /\ ~ENABLED NextLive

----------------------------------------------------------------------------
\* Spacing of the first requests under concurrency (SpecSpacer)

Dispatched == {t \in DOMAIN tasks : tasks[t].reqs > 0}

\* C17: whatever the interleaving of the tasks through wait_if_needed, the
\* first requests of any two tasks are at least min_interval apart: two
\* tasks are never released at the same instant.
C17_MinimumSpacing ==
    \A t, u \in Dispatched :
        t # u =>
            \/ tasks[t].sent_at - tasks[u].sent_at >= min_interval
            \/ tasks[u].sent_at - tasks[t].sent_at >= min_interval

\* with one slot the calls of wait_if_needed do not overlap and the spacing
\* holds
SpacedWithOneSlot == concurrency = 1 => C17_MinimumSpacing

====
